---- MODULE Spec2Model ----
(***************************************************************************)
(* train_display: the departure-resolution pipeline of src/main.rs.        *)
(*                                                                         *)
(* One run of `main` is modelled as a state machine over the two parsed    *)
(* inputs (static schedule, real-time feed), the station name and the      *)
(* clock: station lookup, expansion over yesterday/today/tomorrow, delay   *)
(* matching, window filter, sort.                                          *)
(*                                                                         *)
(* The run starts with both inputs loaded (a failed fetch or decode ends   *)
(* main before the pipeline, l.69-82).  The iterator chain of l.110-180 is *)
(* lazy, so the code pushes one tuple at a time through expansion, delay   *)
(* and filter; no stage reads what another writes, and only the expansion  *)
(* can panic, so the stages are taken one after the other.  Dates stay far *)
(* from the ends of chrono's range: the overflow panics of l.104, l.107,   *)
(* l.136 and l.165 cannot fire.                                            *)
(*                                                                         *)
(* Conventions                                                             *)
(*   Option<T>      None == <<>>, Some(x) == <<x>>                         *)
(*   NaiveDate      days since 2024-01-01, which is a Monday               *)
(*   NaiveTime      seconds since midnight                                 *)
(*   NaiveDateTime  date * 86400 + seconds since midnight                  *)
(***************************************************************************)
EXTENDS Integers, Sequences, FiniteSets, TLC

VARIABLES
    calendar,        \* gtfs.calendar: service id -> Calendar
    calendar_dates,  \* gtfs.calendar_dates: service id -> Vec<CalendarDate>
    stops,           \* gtfs.stops: stop id -> Stop
    trips,           \* gtfs.trips: trip id -> Trip
    realtime_data,   \* FeedMessage.entity: Vec<FeedEntity>
    station_name,    \* Cli.station
    today,           \* current_datetime.date_naive()
    current_time,    \* current_datetime.time()
    pc,              \* position of main
    panic,           \* the panic message, once main has panicked
    stop_ids,        \* the station's stop ids
    active,          \* date -> result of service_ids_for on that date
    expansion,       \* the tuples leaving the flat_map / flatten (l.110-143)
    resolved,        \* the tuples leaving the delay map (l.144-169)
    collected,       \* valid_stops as collected (l.180), before the sort
    valid_stops      \* valid_stops

vars == <<calendar, calendar_dates, stops, trips, realtime_data, station_name,
          today, current_time, pc, panic, stop_ids, active, expansion,
          resolved, collected, valid_stops>>

inputs == <<calendar, calendar_dates, stops, trips, realtime_data,
            station_name, today, current_time>>

----------------------------------------------------------------------------
(* Option, iterators *)

None == <<>>
Some(x) == <<x>>
IsSome(o) == o # None
IsNone(o) == o = None
Unwrap(o) == o[1]

\* Option::flatten
OptionFlatten(o) == IF o = None THEN None ELSE Unwrap(o)

\* Iterator::find_map, given the closure's results in iteration order: the
\* first of them that is Some
FirstSome(results) ==
    LET hits == {i \in DOMAIN results : results[i] # None}
    IN  IF hits = {} THEN None
        ELSE results[CHOOSE i \in hits : \A j \in hits : i <= j]

\* Iterator::flatten over a sequence of sequences
RECURSIVE Flatten(_)
Flatten(ss) == IF ss = <<>> THEN <<>> ELSE Head(ss) \o Flatten(Tail(ss))

\* the orders in which a HashMap may iterate over the keys `keys`
Orders(keys) ==
    {o \in [1..Cardinality(keys) -> keys] : \A k \in keys : \E i \in DOMAIN o : o[i] = k}

----------------------------------------------------------------------------
(* chrono *)

SecondsPerDay == 24 * 60 * 60

\* NaiveTime::from_hms_opt
HMS(h, m, s) == h * 3600 + m * 60 + s

DAY_TRANSITION == HMS(2, 0, 0)

\* NaiveDate::and_time
AndTime(date, time) == date * SecondsPerDay + time

WeekdayNames == <<"Mon", "Tue", "Wed", "Thu", "Fri", "Sat", "Sun">>

\* Datelike::weekday; day 0 is Monday 2024-01-01
Weekday(date) == WeekdayNames[(date % 7) + 1]

----------------------------------------------------------------------------
(* service_ids_for *)

correct_weekday(service_calendar, weekday) ==
    CASE weekday = "Mon" -> service_calendar.monday
      [] weekday = "Tue" -> service_calendar.tuesday
      [] weekday = "Wed" -> service_calendar.wednesday
      [] weekday = "Thu" -> service_calendar.thursday
      [] weekday = "Fri" -> service_calendar.friday
      [] weekday = "Sat" -> service_calendar.saturday
      [] weekday = "Sun" -> service_calendar.sunday

correct_date(service_calendar, date) ==
    service_calendar.start_date <= date /\ date <= service_calendar.end_date

\* the filter / map / collect over gtfs.calendar
BaseIds(date) ==
    {service_id \in DOMAIN calendar :
        /\ correct_weekday(calendar[service_id], Weekday(date))
        /\ correct_date(calendar[service_id], date)}

\* ExceptionStep without the removal of l.50
ExceptionStepAddOnly(valid_ids, service_id, calendar_date, date) ==
    IF calendar_date.date # date THEN valid_ids
    ELSE IF calendar_date.exception_type = "Added"
         THEN valid_ids \cup {service_id}
         ELSE valid_ids

\* one step of the inner loop
ExceptionStep(valid_ids, service_id, calendar_date, date) ==
    IF calendar_date.date # date THEN valid_ids
    ELSE IF calendar_date.exception_type = "Added"
         THEN valid_ids \cup {service_id}
         ELSE valid_ids \ {service_id}

\* the inner loop: one service's exceptions, in list order
RECURSIVE ApplyExceptions(_, _, _, _)
ApplyExceptions(valid_ids, service_id, dates, date) ==
    IF dates = <<>> THEN valid_ids
    ELSE ApplyExceptions(ExceptionStep(valid_ids, service_id, Head(dates), date),
                         service_id, Tail(dates), date)

\* the outer loop over gtfs.calendar_dates (a HashMap: each key once, any
\* order; a step touches its own key only, so the order does not matter)
RECURSIVE ForEachService(_, _, _)
ForEachService(valid_ids, keys, date) ==
    IF keys = {} THEN valid_ids
    ELSE LET service_id == CHOOSE k \in keys : TRUE
         IN  ForEachService(
                 ApplyExceptions(valid_ids, service_id, calendar_dates[service_id], date),
                 keys \ {service_id}, date)

service_ids_for(date) == ForEachService(BaseIds(date), DOMAIN calendar_dates, date)

----------------------------------------------------------------------------
(* main: station lookup and clock (l.86-107) *)

\* l.86-91
StationStopIds ==
    {id \in DOMAIN stops :
        IsSome(stops[id].name) /\ Unwrap(stops[id].name) = station_name}

yesterday == today - 1
tomorrow == today + 1
current_naive == AndTime(today, current_time)

ResolveStation ==
    /\ pc = "start"
    /\ stop_ids' = StationStopIds
    /\ IF StationStopIds = {}
       THEN pc' = "panicked" /\ panic' = Some("Station name not found!")
       ELSE pc' = "expand" /\ panic' = panic
    /\ UNCHANGED <<inputs, active, expansion, resolved, collected, valid_stops>>

----------------------------------------------------------------------------
(* main: expansion over trips, stop_times and dates (l.110-143) *)

Dates == <<yesterday, today, tomorrow>>

\* Boardable, also dropping a stop_time that has no departure_time
BoardableWithDeparture(stop_time) ==
    /\ stop_time.stop_id \in stop_ids
    /\ stop_time.pickup_type # "NotAvailable"
    /\ IsSome(stop_time.departure_time)

\* l.117-120
Boardable(stop_time) ==
    /\ stop_time.stop_id \in stop_ids
    /\ stop_time.pickup_type # "NotAvailable"

\* RunsOn, with today as the only candidate date
RunsOnTodayOnly(trip_id, date) ==
    date = today /\ trips[trip_id].service_id \in service_ids_for(date)

\* l.125-127
RunsOn(trip_id, date) == trips[trip_id].service_id \in service_ids_for(date)

\* l.123-127: the dates one stop_time is expanded for, in array order
VisitItems(trip_id, i) ==
    LET ds == SelectSeq(Dates, LAMBDA date : RunsOn(trip_id, date))
    IN  [k \in 1..Len(ds) |-> [trip_id |-> trip_id, visit |-> i, date |-> ds[k]]]

\* l.114-141: one trip's stop_times, in order
TripItems(trip_id) ==
    Flatten([i \in 1..Len(trips[trip_id].stop_times) |->
                IF Boardable(trips[trip_id].stop_times[i])
                THEN VisitItems(trip_id, i) ELSE <<>>])

\* l.110-143: all trips, in the HashMap's iteration order
Items(order) == Flatten([n \in 1..Len(order) |-> TripItems(order[n])])

\* l.134 and l.137: the two `expect`s of the inner closure, in evaluation order
ItemPanic(item) ==
    LET trip == trips[item.trip_id]
        stop_time == trip.stop_times[item.visit]
    IN  IF IsNone(stop_time.departure_time) THEN Some("no departure_time")
        ELSE IF IsNone(trip.trip_headsign) THEN Some("No headsign")
        ELSE None

\* l.131-136: date.and_hms_opt(0, 0, 0) + TimeDelta::seconds(departure_time)
ScheduledTime(date, departure_time) == AndTime(date, 0) + departure_time

\* l.129-138: the tuple; `visit` and `date` record where it came from and are
\* read by no step of the pipeline
Tuple(item) ==
    LET trip == trips[item.trip_id]
        stop_time == trip.stop_times[item.visit]
    IN  [trip_id  |-> item.trip_id,
         time     |-> ScheduledTime(item.date, Unwrap(stop_time.departure_time)),
         headsign |-> Unwrap(trip.trip_headsign),
         visit    |-> item.visit,
         date     |-> item.date]

Expand ==
    /\ pc = "expand"
    /\ active' = [date \in {yesterday, today, tomorrow} |-> service_ids_for(date)]
    /\ \E order \in Orders(DOMAIN trips) :
          LET items == Items(order)
              failure == FirstSome([k \in DOMAIN items |-> ItemPanic(items[k])])
          IN  IF IsSome(failure)
              THEN /\ pc' = "panicked"
                   /\ panic' = failure
                   /\ expansion' = expansion
              ELSE /\ pc' = "delay"
                   /\ panic' = panic
                   /\ expansion' = [k \in 1..Len(items) |-> Tuple(items[k])]
    /\ UNCHANGED <<inputs, stop_ids, resolved, collected, valid_stops>>

----------------------------------------------------------------------------
(* main: delay lookup and application (l.144-169) *)

\* l.154: stop.departure.iter().find_map(|event| event.delay)
EventDelay(departure) == FirstSome([k \in DOMAIN departure |-> departure[k].delay])

\* l.151-155: the closure over one stop-time update
StopDelay(stop) ==
    IF IsNone(stop.stop_id) THEN None
    ELSE IF Unwrap(stop.stop_id) \in stop_ids
         THEN Some(EventDelay(stop.departure))
         ELSE None

\* l.145-156: the closure over one feed entity
EntityDelay(entity, trip_id) ==
    IF IsNone(entity.trip_update) THEN None
    ELSE LET update == Unwrap(entity.trip_update)
         IN  IF IsNone(update.trip.trip_id) THEN None
             ELSE IF trip_id # Unwrap(update.trip.trip_id) THEN None
             ELSE FirstSome([k \in DOMAIN update.stop_time_update |->
                               StopDelay(update.stop_time_update[k])])

\* l.145: Option<Option<i32>>
delay(trip_id) ==
    FirstSome([n \in DOMAIN realtime_data |-> EntityDelay(realtime_data[n], trip_id)])

\* AddDelay, ignoring a negative delay
AddDelayPositiveOnly(time, d) ==
    IF IsNone(d) THEN time
    ELSE IF Unwrap(d) < 0 THEN time ELSE time + Unwrap(d)

\* l.158-167
AddDelay(time, d) == IF IsNone(d) THEN time ELSE time + Unwrap(d)

ApplyDelays ==
    /\ pc = "delay"
    /\ resolved' = [k \in 1..Len(expansion) |->
                       [expansion[k] EXCEPT
                           !.time = AddDelay(@, OptionFlatten(delay(expansion[k].trip_id)))]]
    /\ pc' = "filter"
    /\ UNCHANGED <<inputs, panic, stop_ids, active, expansion, collected, valid_stops>>

----------------------------------------------------------------------------
(* main: window filter (l.170-180) *)

\* UpperBound, with >= for > at l.174
UpperBoundAtOrAfter ==
    IF current_time >= DAY_TRANSITION
    THEN AndTime(tomorrow, DAY_TRANSITION)
    ELSE AndTime(today, DAY_TRANSITION)

\* UpperBound, with the cutoff always on tomorrow
UpperBoundAlwaysTomorrow == AndTime(tomorrow, DAY_TRANSITION)

\* l.174-178
UpperBound ==
    IF current_time > DAY_TRANSITION
    THEN AndTime(tomorrow, DAY_TRANSITION)
    ELSE AndTime(today, DAY_TRANSITION)

\* l.171-178
InWindow(time) == time >= current_naive /\ time <= UpperBound

WindowFilter ==
    /\ pc = "filter"
    /\ collected' = SelectSeq(resolved, LAMBDA e : InWindow(e.time))
    /\ valid_stops' = collected'
    /\ pc' = "sort"
    /\ UNCHANGED <<inputs, panic, stop_ids, active, expansion, resolved>>

----------------------------------------------------------------------------
(* main: sort (l.182-183); slice::sort_by is stable *)

\* Insert, with x placed before the elements that compare equal to it
RECURSIVE InsertBeforeEqual(_, _)
InsertBeforeEqual(sorted, x) ==
    IF sorted = <<>> THEN <<x>>
    ELSE IF Head(sorted).time < x.time
         THEN <<Head(sorted)>> \o InsertBeforeEqual(Tail(sorted), x)
         ELSE <<x>> \o sorted

\* x placed after every element that does not compare greater than it
RECURSIVE Insert(_, _)
Insert(sorted, x) ==
    IF sorted = <<>> THEN <<x>>
    ELSE IF Head(sorted).time <= x.time
         THEN <<Head(sorted)>> \o Insert(Tail(sorted), x)
         ELSE <<x>> \o sorted

RECURSIVE SortFrom(_, _)
SortFrom(sorted, rest) ==
    IF rest = <<>> THEN sorted
    ELSE SortFrom(Insert(sorted, Head(rest)), Tail(rest))

sort_by(s) == SortFrom(<<>>, s)

Sort ==
    /\ pc = "sort"
    /\ valid_stops' = sort_by(valid_stops)
    /\ pc' = "done"
    /\ UNCHANGED <<inputs, panic, stop_ids, active, expansion, resolved, collected>>

----------------------------------------------------------------------------

Next == ResolveStation \/ Expand \/ ApplyDelays \/ WindowFilter \/ Sort

\* the state main starts in, its inputs drawn from the given sets
InitWith(Calendars, CalendarDates, Stops, Trips, Feeds, Names, Days, Times) ==
    /\ calendar \in Calendars
    /\ calendar_dates \in CalendarDates
    /\ stops \in Stops
    /\ trips \in Trips
    /\ realtime_data \in Feeds
    /\ station_name \in Names
    /\ today \in Days
    /\ current_time \in Times
    /\ pc = "start"
    /\ panic = None
    /\ stop_ids = {}
    /\ active = <<>>
    /\ expansion = <<>>
    /\ resolved = <<>>
    /\ collected = <<>>
    /\ valid_stops = <<>>

----------------------------------------------------------------------------
(* Inputs *)

\* gtfs_structures::Calendar
Calendar(days, start_date, end_date) ==
    [monday |-> "Mon" \in days, tuesday |-> "Tue" \in days,
     wednesday |-> "Wed" \in days, thursday |-> "Thu" \in days,
     friday |-> "Fri" \in days, saturday |-> "Sat" \in days,
     sunday |-> "Sun" \in days,
     start_date |-> start_date, end_date |-> end_date]

\* gtfs_structures::CalendarDate
CalendarDate(date, exception_type) == [date |-> date, exception_type |-> exception_type]

\* gtfs_structures::StopTime (stop.id, pickup_type, departure_time)
StopTime(stop_id, pickup_type, departure_time) ==
    [stop_id |-> stop_id, pickup_type |-> pickup_type, departure_time |-> departure_time]

\* gtfs_structures::Trip (service_id, trip_headsign, stop_times)
Trip(service_id, trip_headsign, stop_times) ==
    [service_id |-> service_id, trip_headsign |-> trip_headsign, stop_times |-> stop_times]

\* gtfs_realtime::trip_update::StopTimeUpdate (stop_id, departure)
StopTimeUpdate(stop_id, departure) == [stop_id |-> stop_id, departure |-> departure]

\* gtfs_realtime::trip_update::StopTimeEvent (delay)
StopTimeEvent(d) == [delay |-> d]

\* gtfs_realtime::FeedEntity carrying a TripUpdate
TripUpdateEntity(trip_id, stop_time_update) ==
    [trip_update |-> Some([trip |-> [trip_id |-> trip_id],
                           stop_time_update |-> stop_time_update])]

\* gtfs_realtime::FeedEntity carrying no TripUpdate
OtherEntity == [trip_update |-> None]

\* the sequences over S of length at most n
SeqUpTo(S, n) == UNION {[1..k -> S] : k \in 0..n}

\* the station "Central" has two platforms; one stop has no name
TheStops ==
    [id \in {"A1", "A2", "B", "X"} |->
        [name |-> CASE id \in {"A1", "A2"} -> Some("Central")
                    [] id = "B" -> Some("Harbour")
                    [] OTHER -> None]]

\* the day of January 2024 as a NaiveDate
Jan(d) == d - 1

Wed3 == Jan(3)
Thu4 == Jan(4)
Fri5 == Jan(5)
Sat6 == Jan(6)

\* Mon/Wed/Fri, 2024-01-01 .. 2024-01-31
MonWedFri == Calendar({"Mon", "Wed", "Fri"}, Jan(1), Jan(31))
Weekend == Calendar({"Sat", "Sun"}, Jan(1), Jan(31))
Daily == Calendar({"Mon", "Tue", "Wed", "Thu", "Fri", "Sat", "Sun"}, Jan(1), Jan(31))

\* the schedule's service ids, trip ids
ServiceIds == {"s1", "s2"}
TripIds == {"T1", "T2"}

----------------------------------------------------------------------------
(* SpecCal: every weekly rule and exception list of service s1 around      *)
(* Wed 3 / Thu 4 January; s1 may also be known to calendar_dates only      *)

MaxExceptions == 2

CalRules ==
    {Calendar(days, s, e) :
        days \in SUBSET {"Wed", "Thu", "Fri"}, s \in {Jan(1), Thu4, Fri5},
        e \in {Wed3, Thu4, Jan(31)}}

CalCalendars ==
    {[id \in {"s2"} |-> Daily]}
    \cup {[id \in ServiceIds |-> IF id = "s1" THEN c ELSE Daily] : c \in CalRules}

CalExceptions ==
    {[id \in {"s1"} |-> l] :
        l \in SeqUpTo({CalendarDate(d, x) : d \in {Wed3, Thu4, Fri5},
                                            x \in {"Added", "Deleted"}},
                      MaxExceptions)}

CalTrips ==
    {[id \in TripIds |->
        IF id = "T1"
        THEN Trip("s1", Some("North"), <<StopTime("A1", "Regular", Some(HMS(8, 0, 0)))>>)
        ELSE Trip("s2", Some("South"), <<StopTime("A2", "Regular", Some(HMS(9, 0, 0)))>>)]}

InitCal ==
    InitWith(CalCalendars, CalExceptions, {TheStops}, CalTrips, {<<>>},
             {"Central"}, {Wed3, Thu4}, {HMS(7, 0, 0)})

SpecCal == InitCal /\ [][Next]_vars

----------------------------------------------------------------------------
(* Calendar resolution *)

Ran == pc \in {"delay", "filter", "sort", "done"}
CalendarResolved == pc \in {"delay", "filter", "sort", "done", "panicked"} /\ DOMAIN active # {}

\* the exceptions of one service dated exactly `date`, in list order
ExceptionsOn(service_id, date) ==
    IF service_id \in DOMAIN calendar_dates
    THEN SelectSeq(calendar_dates[service_id], LAMBDA cd : cd.date = date)
    ELSE <<>>

HasException(service_id, date, exception_type) ==
    \E k \in DOMAIN ExceptionsOn(service_id, date) :
        ExceptionsOn(service_id, date)[k].exception_type = exception_type

\* the weekly recurrence rule alone
WeeklyRule(service_id, date) ==
    /\ service_id \in DOMAIN calendar
    /\ LET c == calendar[service_id]
           flags == <<c.monday, c.tuesday, c.wednesday, c.thursday, c.friday,
                      c.saturday, c.sunday>>
       IN  /\ flags[(date % 7) + 1]
           /\ c.start_date <= date
           /\ date <= c.end_date

\* C1, as stated: a service id is in the result of service_ids_for exactly
\* when it has an Added exception dated that date, or it has no exception dated
\* that date and its weekly rule includes the date.
C1_AddedAlwaysWins ==
    CalendarResolved =>
        \A date \in DOMAIN active : \A id \in ServiceIds :
            id \in active[date] <=>
                \/ HasException(id, date, "Added")
                \/ ExceptionsOn(id, date) = <<>> /\ WeeklyRule(id, date)

\* C1, amended: a service id is in the result of service_ids_for exactly when
\* the last exception in its list dated that date is Added, or it has no
\* exception dated that date and its weekly rule includes the date.
C1_LastExceptionWins ==
    CalendarResolved =>
        \A date \in DOMAIN active : \A id \in ServiceIds :
            LET ex == ExceptionsOn(id, date)
            IN  id \in active[date] <=>
                    IF ex # <<>> THEN ex[Len(ex)].exception_type = "Added"
                    ELSE WeeklyRule(id, date)

\* C1 witness: the resolver has run; on one date s1 is returned through an
\* Added exception although its weekly rule excludes the date, and on another
\* it is absent through a Deleted exception although the rule includes it.
C1_Witness ==
    /\ CalendarResolved
    /\ \E date \in DOMAIN active :
          /\ ~WeeklyRule("s1", date)
          /\ HasException("s1", date, "Added")
          /\ "s1" \in active[date]
    /\ \E date \in DOMAIN active :
          /\ WeeklyRule("s1", date)
          /\ HasException("s1", date, "Deleted")
          /\ "s1" \notin active[date]

----------------------------------------------------------------------------
(* SpecExpand: every shape of trip T1 at the station "Central", under a    *)
(* weekday and a weekend service, on three days of the week                *)

MaxVisits == 2

ExpVisits ==
    {StopTime(stop_id, pickup_type, departure_time) :
        stop_id \in {"A1", "A2", "B"},
        pickup_type \in {"Regular", "NotAvailable"},
        departure_time \in {None, Some(HMS(8, 0, 0)), Some(HMS(25, 0, 0))}}

ExpTrips ==
    {[id \in TripIds |->
        IF id = "T1"
        THEN Trip("s1", headsign, stop_times)
        ELSE Trip("s2", Some("South"), <<StopTime("A2", "Regular", Some(HMS(9, 0, 0)))>>)] :
        headsign \in {None, Some("North")},
        stop_times \in SeqUpTo(ExpVisits, MaxVisits)}

ExpCalendars ==
    {[id \in ServiceIds |-> IF id = "s1" THEN c ELSE Daily] : c \in {MonWedFri, Weekend}}

InitExpand ==
    InitWith(ExpCalendars, {<<>>}, {TheStops}, ExpTrips, {<<>>},
             {"Central"}, {Wed3, Thu4, Sat6}, {HMS(7, 0, 0)})

SpecExpand == InitExpand /\ [][Next]_vars

----------------------------------------------------------------------------
(* Expansion *)

\* a stop-visit at the station at which boarding is possible
AtStation(stop_time) ==
    /\ IsSome(stops[stop_time.stop_id].name)
    /\ Unwrap(stops[stop_time.stop_id].name) = station_name
    /\ stop_time.pickup_type # "NotAvailable"

Window == {today - 1, today, today + 1}

\* the positions of `list` that hold the expansion of (trip, visit, date)
EntriesOf(list, trip_id, i, date) ==
    {k \in DOMAIN list :
        list[k].trip_id = trip_id /\ list[k].visit = i /\ list[k].date = date}

\* C6: for every trip, every boardable stop-visit at the station and every
\* date D of yesterday, today, tomorrow, the expansion holds one departure for
\* (trip, stop-visit, D) when the trip's service is active on D, at midnight(D)
\* + offset, and none otherwise; it holds nothing else.
C6_ExpansionPerActiveDate ==
    Ran =>
        /\ \A trip_id \in DOMAIN trips : \A i \in DOMAIN trips[trip_id].stop_times :
              LET stop_time == trips[trip_id].stop_times[i]
              IN  AtStation(stop_time) =>
                      \A date \in Window :
                          LET hits == EntriesOf(expansion, trip_id, i, date)
                          IN  IF trips[trip_id].service_id \in active[date]
                              THEN /\ Cardinality(hits) = 1
                                   /\ \A k \in hits :
                                         expansion[k].time =
                                             date * 86400
                                               + Unwrap(stop_time.departure_time)
                              ELSE hits = {}
        /\ \A k \in DOMAIN expansion :
              /\ expansion[k].date \in Window
              /\ AtStation(trips[expansion[k].trip_id].stop_times[expansion[k].visit])

\* C6 witness: an offset of 90000 s on a service active yesterday and not
\* today is expanded at today 01:00:00 and not under today's midnight.
C6_Witness ==
    /\ Ran
    /\ \E i \in DOMAIN trips["T1"].stop_times :
          /\ AtStation(trips["T1"].stop_times[i])
          /\ trips["T1"].stop_times[i].departure_time = Some(90000)
          /\ "s1" \in active[today - 1]
          /\ "s1" \notin active[today]
          /\ \E k \in EntriesOf(expansion, "T1", i, today - 1) :
                expansion[k].time = today * 86400 + 3600
          /\ EntriesOf(expansion, "T1", i, today) = {}

\* a trip's service is active on one of yesterday, today, tomorrow
ActiveInWindow(trip_id) ==
    \E date \in Window : trips[trip_id].service_id \in service_ids_for(date)

\* a trip with a boardable stop-visit at the station that lacks a departure
\* offset, or such a trip without a headsign
Malformed(trip_id) ==
    \E i \in DOMAIN trips[trip_id].stop_times :
        /\ AtStation(trips[trip_id].stop_times[i])
        /\ \/ IsNone(trips[trip_id].stop_times[i].departure_time)
           \/ IsNone(trips[trip_id].trip_headsign)

Expanded == pc \in {"delay", "filter", "sort", "done", "panicked"}

\* C4, as stated: a malformed trip ends the run in a fatal error, whatever its
\* service activity on yesterday, today and tomorrow.
C4_MalformedAlwaysFatal ==
    Expanded /\ (\E trip_id \in DOMAIN trips : Malformed(trip_id)) =>
        pc = "panicked"

\* C4, amended: a malformed trip whose service is active on at least one of
\* yesterday, today, tomorrow ends the run in a fatal error, and no entry is
\* produced.
C4_MalformedActiveFatal ==
    Expanded /\ (\E trip_id \in DOMAIN trips : Malformed(trip_id) /\ ActiveInWindow(trip_id)) =>
        /\ pc = "panicked"
        /\ panic \in {Some("no departure_time"), Some("No headsign")}
        /\ expansion = <<>>
        /\ valid_stops = <<>>

\* C4 witness: the run has panicked on a headsign missing from an active trip
\* whose boardable stop-visits all carry a departure offset.
C4_Witness ==
    /\ pc = "panicked"
    /\ panic = Some("No headsign")
    /\ Malformed("T1")
    /\ ActiveInWindow("T1")
    /\ \A i \in DOMAIN trips["T1"].stop_times :
          IsSome(trips["T1"].stop_times[i].departure_time)

\* C3: when the station has two or more stop ids and a trip has boardable
\* stop-visits at more than one of them, the final list holds that trip at most
\* once per service date.
C3_TripOncePerServiceDate ==
    pc = "done" /\ Cardinality(StationStopIds) >= 2 =>
        \A trip_id \in DOMAIN trips :
            LET st == trips[trip_id].stop_times
            IN  (\E i, j \in DOMAIN st :
                    /\ AtStation(st[i]) /\ AtStation(st[j])
                    /\ st[i].stop_id # st[j].stop_id) =>
                \A date \in Window :
                    Cardinality({k \in DOMAIN valid_stops :
                                    /\ valid_stops[k].trip_id = trip_id
                                    /\ valid_stops[k].date = date}) <= 1

----------------------------------------------------------------------------
(* SpecFeed: every feed of at most MaxEntities entities over trips T1 and  *)
(* T2, each trip-update with at most MaxUpdates stop-time updates          *)

MaxEntities == 2
MaxUpdates == 2

FeedUpdates ==
    {StopTimeUpdate(Some(stop_id), departure) :
        stop_id \in {"A1", "B"},
        departure \in {None, Some(StopTimeEvent(None)),
                       Some(StopTimeEvent(Some(120))), Some(StopTimeEvent(Some(-60)))}}
    \cup {StopTimeUpdate(None, Some(StopTimeEvent(Some(120))))}

FeedEntities ==
    {OtherEntity, TripUpdateEntity(None, <<>>)}
    \cup {TripUpdateEntity(Some(trip_id), updates) :
            trip_id \in TripIds, updates \in SeqUpTo(FeedUpdates, MaxUpdates)}

Feeds == SeqUpTo(FeedEntities, MaxEntities)

DailyCalendars == {[id \in ServiceIds |-> Daily]}

InitFeed ==
    InitWith(DailyCalendars, {<<>>}, {TheStops}, CalTrips, Feeds,
             {"Central"}, {Wed3}, {HMS(7, 0, 0)})

SpecFeed == InitFeed /\ [][Next]_vars

----------------------------------------------------------------------------
(* Delay matching *)

Delayed == pc \in {"filter", "sort", "done"}

\* the positions of the feed entities whose trip-update names the trip
EntitiesFor(trip_id) ==
    {n \in DOMAIN realtime_data :
        /\ IsSome(realtime_data[n].trip_update)
        /\ Unwrap(realtime_data[n].trip_update).trip.trip_id = Some(trip_id)}

StopTimeUpdates(n) == Unwrap(realtime_data[n].trip_update).stop_time_update

\* a stop-time update for one of the station's stop ids
ForStation(update) ==
    /\ IsSome(update.stop_id)
    /\ IsSome(stops[Unwrap(update.stop_id)].name)
    /\ Unwrap(stops[Unwrap(update.stop_id)].name) = station_name

CarriesDelay(update) ==
    IsSome(update.departure) /\ IsSome(Unwrap(update.departure).delay)

First(S) == CHOOSE n \in S : \A m \in S : n <= m

\* the seconds the delay step added to the k-th tuple
Shift(k) == resolved[k].time - expansion[k].time

\* C2: within the one trip-update matched for a trip, the delay is that of the
\* first stop-time update for one of the station's stop ids that carries a
\* delay; without such an update there is no delay.
C2_FirstUpdateWithDelay ==
    Delayed =>
        \A k \in DOMAIN resolved :
            LET for == EntitiesFor(resolved[k].trip_id)
            IN  Cardinality(for) = 1 =>
                    LET updates == StopTimeUpdates(First(for))
                        with == {u \in DOMAIN updates :
                                    ForStation(updates[u]) /\ CarriesDelay(updates[u])}
                    IN  Shift(k) =
                            IF with = {} THEN 0
                            ELSE Unwrap(Unwrap(updates[First(with)].departure).delay)

\* C7: when the first feed entity whose trip-update names the trip has no
\* stop-time update for any of the station's stop ids, there is no delay: no
\* later entity is consulted.
C7_FirstEntityOnly ==
    Delayed =>
        \A k \in DOMAIN resolved :
            LET for == EntitiesFor(resolved[k].trip_id)
            IN  /\ for # {}
                /\ \A u \in DOMAIN StopTimeUpdates(First(for)) :
                      ~ForStation(StopTimeUpdates(First(for))[u])
                => Shift(k) = 0

----------------------------------------------------------------------------
(* Spec: a daily trip T1 with up to MaxVisits departures at platform A1 and *)
(* a Mon/Wed/Fri trip T2 at platform A2, around the 02:00 day transition,  *)
(* with feeds that delay T1, T2, both or neither                           *)

Offsets == {HMS(1, 0, 0), HMS(2, 0, 0), HMS(8, 0, 0), HMS(25, 0, 0), HMS(26, 0, 0)}

WinTrips ==
    {[id \in TripIds |->
        IF id = "T1"
        THEN Trip("s1", Some("North"), stop_times)
        ELSE Trip("s2", Some("South"), <<StopTime("A2", "Regular", Some(offset))>>)] :
        stop_times \in SeqUpTo({StopTime("A1", "Regular", Some(o)) : o \in Offsets},
                               MaxVisits) \ {<<>>},
        offset \in {HMS(8, 0, 0), HMS(25, 0, 0)}}

WinCalendars == {[id \in ServiceIds |-> IF id = "s1" THEN Daily ELSE MonWedFri]}

DelayOf(trip_id, stop_id, d) ==
    TripUpdateEntity(Some(trip_id),
                     <<StopTimeUpdate(Some(stop_id), Some(StopTimeEvent(Some(d))))>>)

WinFeeds ==
    {<<>>,
     <<DelayOf("T1", "A1", 120)>>,
     <<OtherEntity, DelayOf("T1", "A1", -60)>>,
     <<DelayOf("T2", "A2", 120), DelayOf("T1", "A1", -60)>>}

WinTimes == {HMS(1, 0, 0), HMS(2, 0, 0), HMS(2, 30, 0), HMS(8, 0, 0)}

Init ==
    InitWith(WinCalendars, {<<>>}, {TheStops}, WinTrips, WinFeeds,
             {"Central", "Nowhere"}, {Wed3, Thu4}, WinTimes)

Spec == Init /\ [][Next]_vars

----------------------------------------------------------------------------
(* Delay application, window, order *)

\* the delay the feed lookup yields for a trip, 0 when it yields none
MatchedSeconds(trip_id) ==
    LET d == OptionFlatten(delay(trip_id))
    IN  IF IsNone(d) THEN 0 ELSE Unwrap(d)

\* C9: every resolved departure's timestamp is its scheduled timestamp plus
\* the matched delay in seconds, positive or negative, and the scheduled
\* timestamp itself when no delay is matched; nothing else of it changes.
C9_TimestampPlusDelay ==
    Delayed =>
        /\ Len(resolved) = Len(expansion)
        /\ \A k \in DOMAIN resolved :
              resolved[k] =
                  [expansion[k] EXCEPT
                      !.time = expansion[k].time + MatchedSeconds(expansion[k].trip_id)]

\* C9 witness: an 08:00:00 departure of today with a matched delay of -60 has
\* been resolved to 07:59:00, and a departure with a matched delay of +120 has
\* been moved 120 s later.
C9_Witness ==
    /\ Delayed
    /\ \E k \in DOMAIN resolved :
          /\ MatchedSeconds(resolved[k].trip_id) = -60
          /\ expansion[k].time = today * 86400 + 8 * 3600
          /\ resolved[k].time = today * 86400 + 7 * 3600 + 59 * 60
    /\ \E k \in DOMAIN resolved :
          /\ MatchedSeconds(resolved[k].trip_id) = 120
          /\ resolved[k].time = expansion[k].time + 120

Filtered == pc \in {"sort", "done"}

\* the display window, from the clock alone
Cutoff ==
    IF current_time > 2 * 3600
    THEN (today + 1) * 86400 + 2 * 3600
    ELSE today * 86400 + 2 * 3600

Now == today * 86400 + current_time

Shown(e) == \E j \in DOMAIN valid_stops : valid_stops[j] = e

\* C5: a departure is in the final list exactly when its delay-adjusted
\* timestamp t satisfies now <= t <= upperBound, both inclusive, upperBound
\* being 02:00 tomorrow when the time of day is after 02:00 and 02:00 today
\* otherwise.
C5_WindowInclusive ==
    Filtered =>
        /\ \A k \in DOMAIN resolved :
              Shown(resolved[k]) <=> (Now <= resolved[k].time /\ resolved[k].time <= Cutoff)
        /\ \A j \in DOMAIN valid_stops : \E k \in DOMAIN resolved : resolved[k] = valid_stops[j]
        /\ Len(valid_stops) =
              Cardinality({k \in DOMAIN resolved :
                              Now <= resolved[k].time /\ resolved[k].time <= Cutoff})

\* C5 witness: the final list holds a departure exactly at now and one exactly
\* at the upper bound, and a departure after the upper bound was dropped.
C5_Witness ==
    /\ pc = "done"
    /\ \E j \in DOMAIN valid_stops : valid_stops[j].time = Now
    /\ \E j \in DOMAIN valid_stops : valid_stops[j].time = Cutoff
    /\ Now < Cutoff
    /\ \E k \in DOMAIN resolved : resolved[k].time > Cutoff /\ ~Shown(resolved[k])

\* C8: the final list is ascending by timestamp, and entries with equal
\* timestamps keep the relative order they had before the sort.
C8_SortedStable ==
    pc = "done" =>
        /\ Len(valid_stops) = Len(collected)
        /\ \A i, j \in DOMAIN valid_stops :
              i < j => valid_stops[i].time <= valid_stops[j].time
        /\ \A k \in DOMAIN collected :
              SelectSeq(valid_stops, LAMBDA e : e.time = collected[k].time)
                  = SelectSeq(collected, LAMBDA e : e.time = collected[k].time)

\* C8 witness: the list came out of the filter unsorted and with two distinct
\* entries at the same timestamp, and has been sorted.
C8_Witness ==
    /\ pc = "done"
    /\ \E i, j \in DOMAIN collected : i < j /\ collected[i].time > collected[j].time
    /\ \E i, j \in DOMAIN collected :
          i < j /\ collected[i].time = collected[j].time /\ collected[i] # collected[j]

\* C10: of the three date expansions of any one stop-visit, at most one is in
\* the final list: after the delay the expansions are still whole days apart,
\* and the window from now to the upper bound is shorter than 24 h.
C10_OneExpansionShown ==
    Filtered =>
        /\ \A trip_id \in DOMAIN trips : \A i \in DOMAIN trips[trip_id].stop_times :
              Cardinality({j \in DOMAIN valid_stops :
                              valid_stops[j].trip_id = trip_id /\ valid_stops[j].visit = i}) <= 1
        /\ \A j, k \in DOMAIN resolved :
              resolved[j].trip_id = resolved[k].trip_id /\ resolved[j].visit = resolved[k].visit
                  => resolved[j].time - resolved[k].time
                         = (resolved[j].date - resolved[k].date) * 86400
        /\ \A j \in DOMAIN valid_stops : valid_stops[j].time - Now < 86400

\* C10 witness: a delayed stop-visit was expanded for all three dates and
\* exactly one of the three is in the final list.
C10_Witness ==
    /\ pc = "done"
    /\ \E trip_id \in DOMAIN trips : \E i \in DOMAIN trips[trip_id].stop_times :
          /\ MatchedSeconds(trip_id) # 0
          /\ \A date \in Window : EntriesOf(resolved, trip_id, i, date) # {}
          /\ Cardinality({j \in DOMAIN valid_stops :
                             valid_stops[j].trip_id = trip_id /\ valid_stops[j].visit = i}) = 1

====
